---------------------------- MODULE Spec2Model ----------------------------
(***************************************************************************)
(* Model of the record normalisation and classification pipeline of        *)
(* scripts/preprocess.py: the road speed classifier (map_speed_class), the *)
(* weather grouper (group_weather), the two bucketers (bucket_precipitation*)
(* and bucket_visibility), the severity collapser (collapse_severity) and  *)
(* the staged batch transformation preprocess().                           *)
(*                                                                         *)
(* Text is a sequence of one-character strings, so that lower-casing,      *)
(* stripping, substring search and the regular expressions are computed    *)
(* character by character, as re / str do.  A value of the table is a     *)
(* cell: a record whose field k says what it is (a number, a text, a       *)
(* label, a boolean, a timestamp, or missing: NaN, None, NaT).             *)
(***************************************************************************)
EXTENDS Integers, Sequences, FiniteSets, TLC

VARIABLES
    street, speed,              \* map_speed_class: its argument, its result
    cond, wgroup,               \* group_weather: its argument, its result
    bkind, bval, blabel,        \* a bucketer: which one, one entry, its label
    post, boston,               \* preprocess: its two parameters
    raw,                        \* the table pd.read_csv returned
    df, cols,                   \* the data frame: its rows, its columns
    pc,                         \* the section preprocess has reached
    written, out                \* whether OUT_FILE was written, and its table

vars == <<street, speed, cond, wgroup, bkind, bval, blabel,
          post, boston, raw, df, cols, pc, written, out>>

functionVars == <<street, speed, cond, wgroup, bkind, bval, blabel>>
pipelineVars == <<post, boston, raw, df, cols, pc, written, out>>

(***************************************************************************)
(* Cells.                                                                  *)
(***************************************************************************)
Missing == [k |-> "nan"]                \* NaN / None / NaT
Num(n) == [k |-> "num", v |-> n]        \* a number
Str(s) == [k |-> "str", v |-> s]        \* a text, s a sequence of characters
Label(l) == [k |-> "label", v |-> l]    \* one of the program's own labels
Bool(b) == [k |-> "bool", v |-> b]      \* a boolean
NotRun == [k |-> "none"]                \* a label not computed yet
NoResult == "-"                         \* a class or group not computed yet

\* pd.isna(x)
isna(x) == x.k = "nan"

(***************************************************************************)
(* Characters and strings.                                                 *)
(***************************************************************************)
Digit == {"0","1","2","3","4","5","6","7","8","9"}
LowerSeq == <<"a","b","c","d","e","f","g","h","i","j","k","l","m","n","o","p","q","r","s","t","u","v","w","x","y","z">>
UpperSeq == <<"A","B","C","D","E","F","G","H","I","J","K","L","M","N","O","P","Q","R","S","T","U","V","W","X","Y","Z">>
LowerLetter == {LowerSeq[i] : i \in 1..26}
Space == {" "}

\* str.lower(), one character
LowerChar(c) ==
    IF \E i \in 1..26 : UpperSeq[i] = c
    THEN LowerSeq[CHOOSE i \in 1..26 : UpperSeq[i] = c]
    ELSE c

\* str.lower()
lower(s) == [i \in 1..Len(s) |-> LowerChar(s[i])]

\* str.strip(): leading and trailing whitespace removed
strip(s) ==
    LET keep == {i \in 1..Len(s) : s[i] \notin Space}
    IN  IF keep = {} THEN <<>>
        ELSE LET a == CHOOSE i \in keep : \A j \in keep : i <= j
                 b == CHOOSE i \in keep : \A j \in keep : i >= j
             IN  SubSeq(s, a, b)

\* k in s
Contains(s, k) ==
    \E i \in 1..(Len(s) - Len(k) + 1) : SubSeq(s, i, i + Len(k) - 1) = k

\* any(k in s for k in keywords)
ContainsAny(s, keywords) == \E k \in keywords : Contains(s, k)

(***************************************************************************)
(* The pieces of the regular expressions, over lower-cased text (every     *)
(* pattern is compiled with re.IGNORECASE and searched in s.lower()).      *)
(***************************************************************************)
\* \w at position p; a position outside the text holds no character
IsWordAt(s, p) ==
    /\ p \in 1..Len(s)
    /\ s[p] \in LowerLetter \cup Digit \cup {"_"} \cup {UpperSeq[i] : i \in 1..26}

\* \b just before position p (p = Len(s) + 1: at the end)
Boundary(s, p) == IsWordAt(s, p - 1) # IsWordAt(s, p)

\* the text at p..p+Len(k)-1 is k
LiteralAt(s, p, k) ==
    /\ p >= 1
    /\ p + Len(k) - 1 <= Len(s)
    /\ SubSeq(s, p, p + Len(k) - 1) = k

\* \d+ from position q, ending at some e; the set of such e
DigitRuns(s, q) == {e \in q..Len(s) : \A k \in q..e : s[k] \in Digit}

\* \d+\b from position q
DigitsThenBoundary(s, q) == \E e \in DigitRuns(s, q) : Boundary(s, e + 1)

\* \s?\d+\b from position q
OptSpaceDigits(s, q) ==
    \/ DigitsThenBoundary(s, q)
    \/ /\ q <= Len(s) /\ s[q] \in Space
       /\ DigitsThenBoundary(s, q + 1)

\* \s?-?\s?\d+\b from position q
SepDigits(s, q) ==
    \E a \in 0..1, h \in 0..1, b \in 0..1 :
        /\ a = 1 => (q <= Len(s) /\ s[q] \in Space)
        /\ h = 1 => (q + a <= Len(s) /\ s[q + a] = "-")
        /\ b = 1 => (q + a + h <= Len(s) /\ s[q + a + h] \in Space)
        /\ DigitsThenBoundary(s, q + a + h + b)


(***************************************************************************)
(* Road classification: the compiled patterns and the keyword table.       *)
(***************************************************************************)
\* r"\bi-\s?\d+\b"
RE_INTERSTATE(s) ==
    \E p \in 1..Len(s) :
        /\ Boundary(s, p)
        /\ LiteralAt(s, p, <<"i","-">>)
        /\ OptSpaceDigits(s, p + 2)

\* r"\bus\s?-?\s?\d+\b|\bus route\b"
RE_US_ROUTE(s) ==
    \E p \in 1..Len(s) :
        /\ Boundary(s, p)
        /\ \/ LiteralAt(s, p, <<"u","s">>) /\ SepDigits(s, p + 2)
           \/ LiteralAt(s, p, <<"u","s"," ","r","o","u","t","e">>) /\ Boundary(s, p + 8)

\* r"\b(state route|route)\s?\d+\b"
RE_STATE_ROUTE_GENERIC(s) ==
    \E p \in 1..Len(s) :
        /\ Boundary(s, p)
        /\ \/ LiteralAt(s, p, <<"s","t","a","t","e"," ","r","o","u","t","e">>) /\ OptSpaceDigits(s, p + 11)
           \/ LiteralAt(s, p, <<"r","o","u","t","e">>) /\ OptSpaceDigits(s, p + 5)

\* r"\b[a-z]{1,3}\s?-?\s?\d+\b"
RE_STATE_CODE_ROUTE(s) ==
    \E p \in 1..Len(s), n \in 1..3 :
        /\ Boundary(s, p)
        /\ p + n - 1 <= Len(s)
        /\ \A k \in p..(p + n - 1) : s[k] \in LowerLetter
        /\ SepDigits(s, p + n)

\* r"\b([nesw]\s?\d+)(st|nd|rd|th)\b", the guard against street directions
RE_DIRECTION_ORDINAL(s) ==
    \E p \in 1..Len(s), a \in 0..1 :
        /\ Boundary(s, p)
        /\ s[p] \in {"n", "e", "s", "w"}
        /\ a = 1 => (p + 1 <= Len(s) /\ s[p + 1] \in Space)
        /\ \E e \in DigitRuns(s, p + 1 + a) :
              /\ \E x \in {<<"s","t">>, <<"n","d">>, <<"r","d">>, <<"t","h">>} : LiteralAt(s, e + 1, x)
              /\ Boundary(s, e + 3)

KW_High_Speed ==
    { <<" ","f","r","e","e","w","a","y">>, <<" ","f","w","y">>, <<" ","e","x","p","r","e","s","s","w","a","y">>, <<" ","e","x","p","y">>, <<" ","t","u","r","n","p","i","k","e">>, <<" ","t","p","k","e">>,
      <<" ","t","h","r","u","w","a","y">>, <<" ","t","r","w","y">>, <<" ","b","e","l","t","w","a","y">>, <<" ","o","u","t","e","r","b","e","l","t">>, <<" ","i","n","n","e","r","b","e","l","t">>,
      <<" ","t","o","l","l","w","a","y">>, <<" ","m","o","t","o","r","w","a","y">>, <<" ","a","u","t","o","b","a","h","n">>, <<" ","p","a","r","k","w","a","y"," ","c","o","n","n","e","c","t","o","r">>,
      <<" ","c","o","n","n","e","c","t","o","r">>, <<" ","o","v","e","r","c","r","o","s","s","i","n","g">> }

KW_Medium_Speed ==
    { <<" ","p","a","r","k","w","a","y">>, <<" ","p","k","w","y">>, <<" ","b","o","u","l","e","v","a","r","d">>, <<" ","b","l","v","d">>, <<" ","a","r","t","e","r","y">>, <<" ","a","r","t","e","r","i","a","l">>,
      <<" ","p","i","k","e">>, <<" ","h","w","y">>, <<" ","h","i","g","h","w","a","y">>, <<" ","r","o","u","t","e">>, <<" ","r","t","e">>, <<" ","c","s","w","y">>,
      <<" ","c","a","u","s","e","w","a","y">>, <<" ","s","k","w","y">>, <<" ","s","k","y","w","a","y">> }

KW_Low_Speed ==
    { <<"s","t","r","e","e","t">>, <<" ","s","t">>, <<"a","v","e","n","u","e">>, <<" ","a","v","e">>, <<" ","r","o","a","d">>, <<" ","r","d">>, <<" ","d","r","i","v","e">>, <<" ","d","r">>,
      <<"l","a","n","e">>, <<" ","l","n">>, <<" ","c","o","u","r","t">>, <<" ","c","t">>, <<" ","w","a","y">>, <<" ","c","i","r","c","l","e">>, <<" ","c","i","r">>, <<" ","t","r","a","i","l">>,
      <<" ","t","r","l">>, <<" ","a","l","l","e","y">>, <<" ","a","l","y">>, <<" ","l","o","o","p">>, <<" ","p","a","s","s">>, <<" ","p","a","t","h">>, <<" ","w","a","l","k">>, <<" ","r","u","n">>,
      <<" ","c","v">>, <<" ","c","o","v","e">>, <<" ","c","r","e","s">>, <<" ","c","r","e","s","c","e","n","t">>, <<" ","b","n","d">>, <<" ","b","e","n","d">>, <<" ","p","t">>, <<" ","p","o","i","n","t">> }

KW_Structure ==
    { <<" ","b","r","i","d","g","e">>, <<" ","b","r","g">>, <<" ","t","u","n","n","e","l">>, <<" ","t","u","n","l">>, <<" ","c","r","o","s","s","i","n","g">>, <<" ","v","i","a","d","u","c","t">> }

high_speed_structures == { <<"t","p","k","e">>, <<"t","u","r","n","p","i","k","e">>, <<"f","r","e","e","w","a","y">>, <<"f","w","y">> }

\* Priority 1 left out: an interstate name falls to the rules below
InterstateFires_Never(s) == FALSE

\* Priority 1: Interstates
InterstateFires(s) == RE_INTERSTATE(s)

\* the state-coded route taken without the guard
StateCodedRouteFires_NoGuard(s) == RE_STATE_CODE_ROUTE(s)

\* State-coded routes with guard against street directions
StateCodedRouteFires(s) ==
    /\ RE_STATE_CODE_ROUTE(s)
    /\ ~ RE_DIRECTION_ORDINAL(s)

\* map_speed_class from "Priority 2" down, for the stripped lower-cased text s
SpeedBelowInterstate(s) ==
    IF ContainsAny(s, KW_High_Speed) THEN "High_Speed"
    ELSE IF ContainsAny(s, KW_Structure)
         THEN IF ContainsAny(s, high_speed_structures)
              THEN "High_Speed" ELSE "Medium_Speed"
    ELSE IF RE_US_ROUTE(s) \/ RE_STATE_ROUTE_GENERIC(s) THEN "Medium_Speed"
    ELSE IF StateCodedRouteFires(s) THEN "Medium_Speed"
    ELSE IF ContainsAny(s, KW_Medium_Speed) THEN "Medium_Speed"
    ELSE IF ContainsAny(s, KW_Low_Speed) THEN "Low_Speed"
    ELSE "Other/Unknown"

\* map_speed_class(street)
map_speed_class(st) ==
    IF isna(st) \/ strip(st.v) = <<>> THEN "Other/Unknown"
    ELSE LET s == strip(lower(st.v))
         IN  IF InterstateFires(s) THEN "High_Speed"
             ELSE SpeedBelowInterstate(s)


(***************************************************************************)
(* Weather grouping.                                                       *)
(***************************************************************************)
\* the Rain test consulted after the Storm test
group_weather_StormFirst(c) ==
    IF isna(c) THEN "Unknown"
    ELSE LET t == lower(c.v)
         IN  IF Contains(t, <<"s","t","o","r","m">>) \/ Contains(t, <<"t","h","u","n","d","e","r">>) THEN "Storm"
             ELSE IF Contains(t, <<"r","a","i","n">>) \/ Contains(t, <<"d","r","i","z","z","l","e">>) THEN "Rain"
             ELSE IF Contains(t, <<"s","n","o","w">>) \/ Contains(t, <<"s","l","e","e","t">>) THEN "Snow"
             ELSE IF Contains(t, <<"f","o","g">>) \/ Contains(t, <<"m","i","s","t">>) THEN "Fog"
             ELSE IF Contains(t, <<"c","l","e","a","r">>) THEN "Clear"
             ELSE IF Contains(t, <<"c","l","o","u","d">>) THEN "Cloudy"
             ELSE "Other"

\* group_weather(cond)
group_weather(c) ==
    IF isna(c) THEN "Unknown"
    ELSE LET t == lower(c.v)
         IN  IF Contains(t, <<"r","a","i","n">>) \/ Contains(t, <<"d","r","i","z","z","l","e">>) THEN "Rain"
             ELSE IF Contains(t, <<"s","n","o","w">>) \/ Contains(t, <<"s","l","e","e","t">>) THEN "Snow"
             ELSE IF Contains(t, <<"f","o","g">>) \/ Contains(t, <<"m","i","s","t">>) THEN "Fog"
             ELSE IF Contains(t, <<"s","t","o","r","m">>) \/ Contains(t, <<"t","h","u","n","d","e","r">>) THEN "Storm"
             ELSE IF Contains(t, <<"c","l","e","a","r">>) THEN "Clear"
             ELSE IF Contains(t, <<"c","l","o","u","d">>) THEN "Cloudy"
             ELSE "Other"


(***************************************************************************)
(* The bucketers.  Amounts are counted in ten-thousandths of the unit      *)
(* (0.0001 in is 1, 0.1 in is 1000, 1 mi is 10000), so that every bin edge *)
(* of the source is an integer; the last edge, np.inf, is the open end of  *)
(* the last bin.                                                           *)
(***************************************************************************)
PRECIP_BINS == <<-100, 1, 1000, 3000>>            \* [-0.01, 0.0001, 0.1, 0.3, inf]
PRECIP_LABELS == <<"No Rain", "Low", "Moderate", "Heavy">>
VIS_BINS == <<-100, 10000, 30000, 60000>>         \* [-0.01, 1, 3, 6, inf]
VIS_LABELS == <<"Very Low", "Low", "Moderate", "Clear">>

\* bins closed on the left, as pd.cut(..., right=False) would make them
InBin_LeftClosed(x, bins, i) ==
    /\ bins[i] <= x
    /\ i < Len(bins) => x < bins[i + 1]

\* x lies in bin i of pd.cut(..., include_lowest=True): bins are closed on
\* the right (pd.cut's default right=True), the first one on the left too
InBin(x, bins, i) ==
    /\ bins[i] < x \/ (i = 1 /\ x = bins[1])
    /\ i < Len(bins) => x <= bins[i + 1]

\* pd.cut(s, bins=bins, labels=labels, include_lowest=True), one entry of s
cut(x, bins, labels) ==
    IF isna(x) THEN Missing
    ELSE IF \E i \in 1..Len(bins) : InBin(x.v, bins, i)
         THEN Label(labels[CHOOSE i \in 1..Len(bins) : InBin(x.v, bins, i)])
         ELSE Missing

\* bucket_precipitation(s), one entry of s
bucket_precipitation(x) == cut(x, PRECIP_BINS, PRECIP_LABELS)

\* missing visibility taken as 0 before the cut
bucket_visibility_FillZero(x) ==
    cut(IF isna(x) THEN Num(0) ELSE x, VIS_BINS, VIS_LABELS)

\* bucket_visibility(s), one entry of s
bucket_visibility(x) == cut(x, VIS_BINS, VIS_LABELS)

(***************************************************************************)
(* Severity.                                                               *)
(***************************************************************************)
\* collapse_severity(sev): sev in (1, 2) is False for NaN and for a text
collapse_severity(sev) ==
    IF sev.k = "num" /\ sev.v \in {1, 2} THEN "Low" ELSE "High"


(***************************************************************************)
(* Timestamps.  pd.to_datetime(..., errors="coerce") is modelled on the    *)
(* dataset's format, "YYYY-MM-DD HH:MM:SS": a text of that shape naming a  *)
(* real date and time parses, any other text (and a missing one) is NaT.   *)
(***************************************************************************)
DigitSeq == <<"0","1","2","3","4","5","6","7","8","9">>
DigitVal(c) == (CHOOSE i \in 1..10 : DigitSeq[i] = c) - 1

\* int(s[a..b]) for a run of digits
RECURSIVE NumberAt(_, _, _)
NumberAt(s, a, b) ==
    IF b < a THEN 0 ELSE 10 * NumberAt(s, a, b - 1) + DigitVal(s[b])

IsLeap(y) == (y % 4 = 0 /\ y % 100 # 0) \/ y % 400 = 0
DaysInMonth(y, m) ==
    IF m = 2 THEN (IF IsLeap(y) THEN 29 ELSE 28)
    ELSE IF m \in {4, 6, 9, 11} THEN 30 ELSE 31

\* Timestamp.dayofweek, Monday = 0
MonthOffset == <<0, 3, 2, 5, 0, 3, 5, 1, 4, 6, 2, 4>>
dayofweek(y, m, d) ==
    LET yy == IF m < 3 THEN y - 1 ELSE y
        sunday0 == (yy + yy \div 4 - yy \div 100 + yy \div 400 + MonthOffset[m] + d) % 7
    IN  (sunday0 + 6) % 7

StampShape(s) ==
    /\ Len(s) = 19
    /\ \A i \in {1,2,3,4,6,7,9,10,12,13,15,16,18,19} : s[i] \in Digit
    /\ s[5] = "-" /\ s[8] = "-" /\ s[11] = " " /\ s[14] = ":" /\ s[17] = ":"

\* pd.to_datetime(x, errors="coerce"), one entry
to_datetime(x) ==
    IF x.k # "str" \/ ~ StampShape(x.v) THEN Missing
    ELSE LET s == x.v
             y == NumberAt(s, 1, 4)
             m == NumberAt(s, 6, 7)
             d == NumberAt(s, 9, 10)
             h == NumberAt(s, 12, 13)
         IN  IF /\ y >= 1 /\ m \in 1..12 /\ d \in 1..DaysInMonth(y, m)
                /\ h \in 0..23
                /\ NumberAt(s, 15, 16) \in 0..59 /\ NumberAt(s, 18, 19) \in 0..59
             THEN [k |-> "ts", v |-> [year |-> y, hour |-> h, dayofweek |-> dayofweek(y, m, d)]]
             ELSE Missing

\* np.sin(2 * np.pi * h / 24) in thousandths, h = 0..23
SIN_24 == <<0, 259, 500, 707, 866, 966, 1000, 966, 866, 707, 500, 259,
            0, -259, -500, -707, -866, -966, -1000, -966, -866, -707, -500, -259>>
hour_sin(h) == SIN_24[h + 1]
\* np.cos(2 * np.pi * h / 24) in thousandths
hour_cos(h) == SIN_24[((h + 6) % 24) + 1]


(***************************************************************************)
(* preprocess(post, boston).  A table is a set of columns and a sequence   *)
(* of rows; a row keeps its index label idx (the DataFrame index, which    *)
(* filtering never renumbers) and val, its cell in every column.           *)
(* Temperature is in degrees F, visibility in miles, precipitation in      *)
(* inches.                                                                 *)
(***************************************************************************)
RequiredColumns == {"Start_Time", "Precipitation(in)", "City", "State", "Severity"}
AllColumns ==
    {"ID", "Start_Time", "Temperature(F)", "Visibility(mi)", "Precipitation(in)",
     "City", "State", "Street", "Severity", "Traffic_Signal"}

\* year_range
year_range == IF post THEN <<2019, 2023>> ELSE <<2016, 2018>>

\* the window's upper end left out, as Year < year_range[1] would
InWindow_UpperExclusive(y) == year_range[1] <= y /\ y < year_range[2]

\* Series.between(year_range[0], year_range[1]): inclusive at both ends
InWindow(y) == year_range[1] <= y /\ y <= year_range[2]

numeric_cols_ranges ==
    << <<"Temperature(F)", -40, 120>>,
       <<"Visibility(mi)", 0, 10>>,
       <<"Precipitation(in)", 0, 25>> >>

features ==
    <<"Severity2", "CityState", "Hour_Sin", "Hour_Cos", "Is_Weekend",
      "Speed_Class", "Precipitation(in)", "Visibility(mi)",
      "Temperature(F)", "Traffic_Signal">>

must_have == <<"Severity2", "CityState", "Hour_Sin", "Hour_Cos">>

\* val with column c set to x (df[c] = ..., one row)
WithColumn(val, c, x) ==
    [d \in (DOMAIN val) \cup {c} |-> IF d = c THEN x ELSE val[d]]

\* the rows of a sequence, as a set
Rows(rows) == {rows[i] : i \in 1..Len(rows)}

\* pd.read_csv's dtype of a column: object as soon as one value of it is
\* not a number; the numeric columns of a clean file are float64
ObjectDtype(c) == \E r \in Rows(raw.rows) : r.val[c].k = "str"

\* df.drop_duplicates(subset=dup_cols): the first row of every group of
\* rows equal on dup_cols is kept (NaN equals NaN here)
drop_duplicates(rows, dup_cols) ==
    LET key(r) == [c \in dup_cols |-> r.val[c]]
        first(r) == ~ \E q \in Rows(rows) : q.idx < r.idx /\ key(q) = key(r)
    IN  SelectSeq(rows, first)

\* every row kept: the frame is passed on as read
drop_duplicates_KeepAll(rows, dup_cols) == rows

\* --- Deduplication ---
Dedup ==
    /\ pc = "Deduplication"
    /\ df' = drop_duplicates(df, cols \ {"ID"})
    /\ pc' = "Time Processing"
    /\ UNCHANGED <<cols, written, out, raw, post, boston, functionVars>>

\* Start_Time parsed, NaT rows dropped, Year / Hour / Is_Weekend derived,
\* rows outside year_range dropped
TimeProcessed(rows) ==
    LET parse(r) == [r EXCEPT !.val["Start_Time"] = to_datetime(@)]
        parsed == [i \in 1..Len(rows) |-> parse(rows[i])]
        isTime(r) == ~ isna(r.val["Start_Time"])
        kept == SelectSeq(parsed, isTime)
        derive(r) ==
            LET t == r.val["Start_Time"].v
            IN  [r EXCEPT !.val =
                    WithColumn(WithColumn(WithColumn(@,
                        "Year", Num(t.year)),
                        "Hour", Num(t.hour)),
                        "Is_Weekend", Bool(t.dayofweek >= 5))]
        derived == [i \in 1..Len(kept) |-> derive(kept[i])]
        inRange(r) == InWindow(r.val["Year"].v)
    IN  SelectSeq(derived, inRange)

\* --- Time Processing ---
TimeProcessing ==
    /\ pc = "Time Processing"
    /\ IF "Start_Time" \notin cols
       THEN /\ pc' = "failed"                       \* KeyError
            /\ UNCHANGED <<df, cols>>
       ELSE /\ df' = TimeProcessed(df)
            /\ cols' = cols \cup {"Year", "Hour", "Is_Weekend"}
            /\ pc' = "Data Cleaning"
    /\ UNCHANGED <<written, out, raw, post, boston, functionVars>>

\* Series.between(lo, hi) compares every value that is not NaN with lo and
\* hi; in a column of object dtype the values are text and the comparison
\* raises TypeError
BetweenRaises(rows, c) ==
    /\ ObjectDtype(c)
    /\ \E r \in Rows(rows) : ~ isna(r.val[c])

\* out-of-range rows kept as well
Plausible_KeepAll(rows, c, lo, hi) == rows

\* df[df[col].isna() | df[col].between(lo, hi)]
Plausible(rows, c, lo, hi) ==
    LET valid(r) == isna(r.val[c]) \/ (lo <= r.val[c].v /\ r.val[c].v <= hi)
    IN  SelectSeq(rows, valid)

\* the loop over numeric_cols_ranges from its i-th entry on
RECURSIVE PlausibilityFilter(_, _)
PlausibilityFilter(rows, i) ==
    IF i > Len(numeric_cols_ranges) THEN [raised |-> FALSE, rows |-> rows]
    ELSE LET c == numeric_cols_ranges[i][1]
             lo == numeric_cols_ranges[i][2]
             hi == numeric_cols_ranges[i][3]
         IN  IF c \notin cols THEN PlausibilityFilter(rows, i + 1)
             ELSE IF BetweenRaises(rows, c) THEN [raised |-> TRUE, rows |-> rows]
             ELSE PlausibilityFilter(Plausible(rows, c, lo, hi), i + 1)

\* missing precipitation left missing
Impute_Nothing(rows) == rows

\* df["Precipitation(in)"].fillna(0.0)
Impute(rows) ==
    [i \in 1..Len(rows) |->
        [rows[i] EXCEPT !.val["Precipitation(in)"] = IF isna(@) THEN Num(0) ELSE @]]

\* --- Data Cleaning ---
DataCleaning ==
    /\ pc = "Data Cleaning"
    /\ LET f == PlausibilityFilter(df, 1)
       IN  IF f.raised \/ "Precipitation(in)" \notin cols
           THEN /\ pc' = "failed"                   \* TypeError, KeyError
                /\ UNCHANGED df
           ELSE /\ df' = Impute(f.rows)
                /\ pc' = "Feature Engineering"
    /\ UNCHANGED <<cols, written, out, raw, post, boston, functionVars>>

\* Series.fillna(text).astype(str), one entry
FillText(x, text) == IF isna(x) THEN text ELSE x.v

\* CityState, the Boston restriction, Speed_Class, Hour_Sin and Hour_Cos
FeaturesAdded(rows) ==
    LET cityState(r) ==
            Str(FillText(r.val["City"], <<"U","n","k","n","o","w","n">>) \o <<","," ">>
                \o FillText(r.val["State"], <<"N","A">>))
        withCity == [i \in 1..Len(rows) |->
                        [rows[i] EXCEPT !.val = WithColumn(@, "CityState", cityState(rows[i]))]]
        isBoston(r) == r.val["CityState"] = Str(<<"B","o","s","t","o","n",","," ","M","A">>)
        kept == IF boston THEN SelectSeq(withCity, isBoston) ELSE withCity
        speed_class(r) ==
            IF "Street" \in cols THEN Label(map_speed_class(r.val["Street"]))
            ELSE Label("Unknown")
        derive(r) ==
            [r EXCEPT !.val =
                WithColumn(WithColumn(WithColumn(@,
                    "Speed_Class", speed_class(r)),
                    "Hour_Sin", Num(hour_sin(r.val["Hour"].v))),
                    "Hour_Cos", Num(hour_cos(r.val["Hour"].v)))]
    IN  [i \in 1..Len(kept) |-> derive(kept[i])]

\* --- Feature Engineering ---
FeatureEngineering ==
    /\ pc = "Feature Engineering"
    /\ IF "City" \notin cols \/ "State" \notin cols
       THEN /\ pc' = "failed"                       \* KeyError
            /\ UNCHANGED <<df, cols>>
       ELSE /\ df' = FeaturesAdded(df)
            /\ cols' = cols \cup {"CityState", "Speed_Class", "Hour_Sin", "Hour_Cos"}
            /\ pc' = "Target Preparation"
    /\ UNCHANGED <<written, out, raw, post, boston, functionVars>>

\* --- Target Preparation ---
TargetPreparation ==
    /\ pc = "Target Preparation"
    /\ IF "Severity" \notin cols
       THEN /\ pc' = "failed"                       \* KeyError
            /\ UNCHANGED <<df, cols>>
       ELSE /\ df' = [i \in 1..Len(df) |->
                        [df[i] EXCEPT !.val =
                            WithColumn(@, "Severity2",
                                       Label(collapse_severity(df[i].val["Severity"])))]]
            /\ cols' = cols \cup {"Severity2"}
            /\ pc' = "Final Formatting and Export"
    /\ UNCHANGED <<written, out, raw, post, boston, functionVars>>

\* [c for c in names if c in df.columns], as a set
Existing(names) == {names[i] : i \in 1..Len(names)} \cap cols

\* df[features].dropna(subset=must_have)
Projected(rows) ==
    LET keep == Existing(features)
        project(r) == [r EXCEPT !.val = [c \in keep |-> r.val[c]]]
        projected == [i \in 1..Len(rows) |-> project(rows[i])]
        complete(r) == \A c \in Existing(must_have) : ~ isna(r.val[c])
    IN  SelectSeq(projected, complete)

\* --- Final Formatting and Export ---: df.to_csv(OUT_FILE, index=False)
Export ==
    /\ pc = "Final Formatting and Export"
    /\ df' = Projected(df)
    /\ cols' = Existing(features)
    /\ out' = [i \in 1..Len(df') |-> df'[i].val]
    /\ written' = TRUE
    /\ pc' = "done"
    /\ UNCHANGED <<raw, post, boston, functionVars>>


(***************************************************************************)
(* Bounds of the inputs.                                                   *)
(***************************************************************************)
MaxStreetLen == 4       \* longest street name built from StreetAlphabet
MaxWeatherWords == 2    \* most words joined into one weather condition
EdgeRadius == 5         \* amounts tried on each side of every bin edge
MaxRows == 3            \* most rows of the raw table

\* every text of at most n characters of alphabet
Texts(alphabet, n) == UNION {[1..m -> alphabet] : m \in 0..n}

\* every text made of at most n of the words, joined as they are
RECURSIVE Joined(_, _)
Joined(words, n) ==
    IF n = 0 THEN {<<>>}
    ELSE Joined(words, n - 1)
         \cup {w \o t : w \in words, t \in Joined(words, n - 1)}

(***************************************************************************)
(* The road speed classifier on its own.                                   *)
(***************************************************************************)
StreetAlphabet == {"I", "-", " ", "9", "u", "w", "s", "t"}
NamedStreets ==
    { <<"I","-","9","5">>, <<"I"," ","9","5">>, <<"I","9","5">>, <<"M","a","i","n"," ","S","t","r","e","e","t">>, <<"G","e","o","r","g","e"," ","W","a","s","h","i","n","g","t","o","n"," ","B","r","i","d","g","e">>,
      <<"M","a","s","s","a","c","h","u","s","e","t","t","s"," ","T","u","r","n","p","i","k","e">>, <<"W"," ","1","1","t","h"," ","S","t">>, <<"C","A","-","1">>, <<"C","A","-","1"," ","W"," ","1","1","t","h"," ","S","t">>,
      <<"N"," ","1","s","t"," ","A","1">>, <<"U","S"," ","R","o","u","t","e"," ","1">>, <<"S","t","a","t","e"," ","R","o","u","t","e"," ","9">>, <<"E","l","m"," ","P","k","w","y">>,
      <<"T","p","k","e"," ","B","r","i","d","g","e">>, <<"B","r","o","a","d","w","a","y">>, <<"H","w","y"," ","I","-","9","5"," ","B","r","i","d","g","e">> }
Streets ==
    {Missing} \cup {Str(s) : s \in Texts(StreetAlphabet, MaxStreetLen) \cup NamedStreets}

InitPipelineIdle ==
    /\ post = FALSE /\ boston = FALSE
    /\ raw = [columns |-> {}, rows |-> <<>>]
    /\ df = <<>> /\ cols = {}
    /\ pc = "idle" /\ written = FALSE /\ out = <<>>

InitSpeed ==
    /\ street \in Streets /\ speed = NoResult
    /\ cond = Missing /\ wgroup = NoResult
    /\ bkind = "none" /\ bval = Missing /\ blabel = NotRun
    /\ InitPipelineIdle

\* df["Street"].apply(map_speed_class), one entry
Classify ==
    /\ speed = NoResult
    /\ speed' = map_speed_class(street)
    /\ UNCHANGED <<street, cond, wgroup, bkind, bval, blabel, pipelineVars>>

SpecSpeed == InitSpeed /\ [][Classify]_vars

(***************************************************************************)
(* The weather grouper on its own.                                         *)
(***************************************************************************)
WeatherWords ==
    { <<"L","i","g","h","t"," ">>, <<"R","a","i","n">>, <<"P","a","r","t","l","y"," ">>, <<"C","l","o","u","d","y">>, <<"B","l","i","z","z","a","r","d">>, <<"T","h","u","n","d","e","r">>,
      <<"S","n","o","w">>, <<"F","o","g">>, <<"C","l","e","a","r">>, <<"d","r","i","z","z","l","e">>, <<"s","l","e","e","t">>, <<"m","i","s","t">>, <<"s","t","o","r","m">>,
      <<" ","/"," ">> }
Conditions == {Missing} \cup {Str(s) : s \in Joined(WeatherWords, MaxWeatherWords)}

InitWeather ==
    /\ cond \in Conditions /\ wgroup = NoResult
    /\ street = Missing /\ speed = NoResult
    /\ bkind = "none" /\ bval = Missing /\ blabel = NotRun
    /\ InitPipelineIdle

Group ==
    /\ wgroup = NoResult
    /\ wgroup' = group_weather(cond)
    /\ UNCHANGED <<street, speed, cond, bkind, bval, blabel, pipelineVars>>

SpecWeather == InitWeather /\ [][Group]_vars

(***************************************************************************)
(* The bucketers on their own: one entry of the series at a time.          *)
(***************************************************************************)
\* the amounts within EdgeRadius of an edge of bins, and the given ones
Amounts(bins, given) ==
    given \cup UNION {(bins[i] - EdgeRadius)..(bins[i] + EdgeRadius) : i \in 1..Len(bins)}

PrecipAmounts == Amounts(PRECIP_BINS, {0, 500, 2000, 10000})    \* 0.0 0.05 0.2 1.0
VisAmounts == Amounts(VIS_BINS, {0, 5000, 20000, 100000})       \* 0 0.5 2 10

InitBucket ==
    /\ \/ bkind = "precipitation" /\ bval \in {Missing} \cup {Num(x) : x \in PrecipAmounts}
       \/ bkind = "visibility" /\ bval \in {Missing} \cup {Num(x) : x \in VisAmounts}
    /\ blabel = NotRun
    /\ street = Missing /\ speed = NoResult
    /\ cond = Missing /\ wgroup = NoResult
    /\ InitPipelineIdle

BucketPrecipitation ==
    /\ bkind = "precipitation" /\ blabel = NotRun
    /\ blabel' = bucket_precipitation(bval)
    /\ UNCHANGED <<street, speed, cond, wgroup, bkind, bval, pipelineVars>>

BucketVisibility ==
    /\ bkind = "visibility" /\ blabel = NotRun
    /\ blabel' = bucket_visibility(bval)
    /\ UNCHANGED <<street, speed, cond, wgroup, bkind, bval, pipelineVars>>

NextBucket == BucketPrecipitation \/ BucketVisibility

SpecBucket == InitBucket /\ [][NextBucket]_vars

(***************************************************************************)
(* preprocess() on a raw table of at most MaxRows rows.                    *)
(***************************************************************************)
\* a clean row of the dataset (every column but ID)
BaseRow ==
    [c \in AllColumns \ {"ID"} |->
        CASE c = "Start_Time" -> Str(<<"2","0","1","6","-","0","3","-","0","7"," ","0","8",":","1","5",":","0","0">>)      \* a Monday
          [] c = "Temperature(F)" -> Num(70)
          [] c = "Visibility(mi)" -> Num(10)
          [] c = "Precipitation(in)" -> Num(0)
          [] c = "City" -> Str(<<"B","o","s","t","o","n">>)
          [] c = "State" -> Str(<<"M","A">>)
          [] c = "Street" -> Str(<<"M","a","i","n"," ","S","t","r","e","e","t">>)
          [] c = "Severity" -> Num(2)
          [] c = "Traffic_Signal" -> Bool(FALSE)]

\* what a row of the input differs in from BaseRow: a column and its cell
Deviations ==
    << <<"Start_Time", Str(<<"n","/","a">>)>>,
       <<"Start_Time", Str(<<"2","0","1","5","-","1","2","-","3","1"," ","2","3",":","5","9",":","5","9">>)>>,
       <<"Start_Time", Str(<<"2","0","1","8","-","1","2","-","2","9"," ","1","7",":","0","0",":","0","0">>)>>,              \* a Saturday
       <<"Start_Time", Str(<<"2","0","1","9","-","0","1","-","0","1"," ","0","0",":","0","0",":","0","0">>)>>,
       <<"Start_Time", Str(<<"2","0","2","3","-","1","2","-","3","1"," ","2","3",":","0","0",":","0","0">>)>>,              \* a Sunday
       <<"Start_Time", Str(<<"2","0","2","4","-","0","1","-","0","1"," ","0","0",":","0","0",":","0","0">>)>>,
       <<"Temperature(F)", Missing>>,
       <<"Temperature(F)", Num(121)>>,
       <<"Temperature(F)", Str(<<"w","a","r","m">>)>>,
       <<"Visibility(mi)", Missing>>,
       <<"Precipitation(in)", Missing>>,
       <<"Precipitation(in)", Num(-1)>>,
       <<"City", Missing>>,
       <<"Street", Missing>>,
       <<"Severity", Num(5)>>,
       <<"Severity", Missing>> >>

\* the j-th kind of row: BaseRow (j = 0), or BaseRow with one deviation
RowKind(j) ==
    IF j = 0 THEN BaseRow
    ELSE [BaseRow EXCEPT ![Deviations[j][1]] = Deviations[j][2]]

\* the raw tables of n rows.  No section depends on the order of the rows
\* (drop_duplicates keeps the first of equal rows, which differ in ID
\* only), so one order stands for all: the kinds in ascending order.
Tables(n) ==
    {ks \in [1..n -> 0..Len(Deviations)] : \A i \in 1..(n - 1) : ks[i] <= ks[i + 1]}

\* the columns of the raw file: all of them, or all but one
ColumnChoices ==
    {AllColumns} \cup {AllColumns \ {c} : c \in RequiredColumns \cup {"Temperature(F)"}}

\* the ID of the i-th row
RowID(i) == Str(<<"A","-">> \o <<DigitSeq[i + 1]>>)

\* pd.read_csv(FILE_PATH) of a file with these columns and rows of these kinds
\* (kinds[i] says which RowKind the i-th row is)
ReadCsv(columns, kinds) ==
    [columns |-> columns,
     rows |-> [i \in 1..Len(kinds) |->
                 [idx |-> i - 1,
                  val |-> [c \in columns |->
                              IF c = "ID" THEN RowID(i) ELSE RowKind(kinds[i])[c]]]]]

Init ==
    /\ post \in BOOLEAN /\ boston \in BOOLEAN
    /\ \E columns \in ColumnChoices, n \in 0..MaxRows :
          \E kinds \in Tables(n) : raw = ReadCsv(columns, kinds)
    /\ df = raw.rows /\ cols = raw.columns
    /\ pc = "Deduplication" /\ written = FALSE /\ out = <<>>
    /\ street = Missing /\ speed = NoResult
    /\ cond = Missing /\ wgroup = NoResult
    /\ bkind = "none" /\ bval = Missing /\ blabel = NotRun

Next ==
    \/ Dedup
    \/ TimeProcessing
    \/ DataCleaning
    \/ FeatureEngineering
    \/ TargetPreparation
    \/ Export

Spec == Init /\ [][Next]_vars


(***************************************************************************)
(* Claims about the bucketers (SpecBucket).                                *)
(***************************************************************************)
PrecipBucketed == bkind = "precipitation" /\ blabel # NotRun
VisBucketed == bkind = "visibility" /\ blabel # NotRun

\* C1, as stated: the precipitation bins are closed on the left, so that
\* for v >= 0 the label is No Rain on [0, 0.0001), Low on [0.0001, 0.1),
\* Moderate on [0.1, 0.3) and Heavy from 0.3 on; 0.1 is Moderate.
C1_LeftClosedBins ==
    (PrecipBucketed /\ bval.k = "num" /\ bval.v >= 0) =>
        /\ blabel = Label(IF bval.v < 1 THEN "No Rain"
                          ELSE IF bval.v < 1000 THEN "Low"
                          ELSE IF bval.v < 3000 THEN "Moderate"
                          ELSE "Heavy")
        /\ bval.v = 1000 => blabel = Label("Moderate")

\* C1, amended: the precipitation bins are closed on the right: for v >= 0
\* the label is No Rain on [0, 0.0001], Low on (0.0001, 0.1], Moderate on
\* (0.1, 0.3] and Heavy above 0.3; a value at an edge gets the bucket whose
\* upper bound is that edge (0.0001 No Rain, 0.1 Low, 0.3 Moderate), and
\* 0.0 is No Rain, 0.05 Low, 0.2 Moderate, 1.0 Heavy.
C1_RightClosedBins ==
    (PrecipBucketed /\ bval.k = "num" /\ bval.v >= 0) =>
        /\ blabel = Label(IF bval.v <= 1 THEN "No Rain"
                          ELSE IF bval.v <= 1000 THEN "Low"
                          ELSE IF bval.v <= 3000 THEN "Moderate"
                          ELSE "Heavy")
        /\ bval.v = 1 => blabel = Label("No Rain")
        /\ bval.v = 1000 => blabel = Label("Low")
        /\ bval.v = 3000 => blabel = Label("Moderate")
        /\ bval.v = 0 => blabel = Label("No Rain")
        /\ bval.v = 500 => blabel = Label("Low")
        /\ bval.v = 2000 => blabel = Label("Moderate")
        /\ bval.v = 10000 => blabel = Label("Heavy")

\* C1, witness: 0.1 in has been bucketed, and its label is Low
C1_EdgeBucketed == PrecipBucketed /\ bval = Num(1000) /\ blabel = Label("Low")

\* C7, as stated: a missing visibility is labelled "Unknown" by the
\* bucketer, never a numeric bucket label and never a missing label.
C7_MissingVisibilityUnknown ==
    (VisBucketed /\ isna(bval)) => blabel = Label("Unknown")

\* C7, amended: the bucketer gives a missing visibility a missing label
\* (NaN): never one of Very Low, Low, Moderate, Clear, and not "Unknown",
\* which is no category of the bucketer.
C7_MissingVisibilityStaysMissing ==
    (VisBucketed /\ isna(bval)) =>
        /\ isna(blabel)
        /\ blabel \notin {Label(VIS_LABELS[i]) : i \in 1..Len(VIS_LABELS)}
        /\ blabel # Label("Unknown")

\* C7, witness: a missing visibility has been bucketed
C7_MissingBucketed == VisBucketed /\ isna(bval) /\ isna(blabel)

(***************************************************************************)
(* Claims about the road speed classifier (SpecSpeed).                     *)
(***************************************************************************)
Classified == speed # NoResult
NonBlank == ~ isna(street) /\ strip(street.v) # <<>>
\* the text the rules see
Seen == strip(lower(street.v))

WordChar == LowerLetter \cup Digit \cup {"_"}
StartsWord(s, p) == p = 1 \/ s[p - 1] \notin WordChar
EndsWord(s, e) == e = Len(s) \/ s[e + 1] \notin WordChar
AllDigits(s, q, e) == q <= e /\ \A k \in q..e : s[k] \in Digit

\* "I-" or "I", an optional separator (a hyphen, a space), digits
InterstateAsStated(s) ==
    \E p \in 1..Len(s), q \in 1..Len(s), e \in 1..Len(s) :
        /\ StartsWord(s, p) /\ s[p] = "i"
        /\ q > p /\ \A k \in (p + 1)..(q - 1) : s[k] \in {"-", " "}
        /\ q <= p + 3
        /\ AllDigits(s, q, e)

\* "I-", at most one space, digits up to a word boundary
InterstateHyphenated(s) ==
    \E p \in 1..Len(s), q \in 1..Len(s), e \in 1..Len(s) :
        /\ StartsWord(s, p) /\ s[p] = "i"
        /\ p + 1 <= Len(s) /\ s[p + 1] = "-"
        /\ q = p + 2 \/ (q = p + 3 /\ s[p + 2] = " ")
        /\ AllDigits(s, q, e) /\ EndsWord(s, e)

\* C2, as stated: a non-blank street name holding, at a word boundary,
\* "I-" or "I", an optional separator and digits (hyphenated or not) is
\* High_Speed whatever the rules below would say; "I-95" is High_Speed.
C2_InterstateHyphenOptional ==
    (Classified /\ NonBlank /\ InterstateAsStated(Seen)) => speed = "High_Speed"

\* C2, amended: a non-blank street name holding, at a word boundary, "I-"
\* (the hyphen is required), at most one whitespace character and digits
\* that end at a word boundary is High_Speed, and no rule below (keywords,
\* structures, US / state routes, the state-coded route pattern) changes
\* that; "I-95" is High_Speed.  "I 95" and "I95" are not rule 1's.
C2_InterstateHyphenated ==
    /\ (Classified /\ NonBlank /\ InterstateHyphenated(Seen)) => speed = "High_Speed"
    /\ (Classified /\ street = Str(<<"I","-","9","5">>)) => speed = "High_Speed"
    /\ (Classified /\ street = Str(<<"H","w","y"," ","I","-","9","5"," ","B","r","i","d","g","e">>)) => speed = "High_Speed"

\* C2, witness: "I-9", which the state-coded route pattern (Medium_Speed)
\* matches too, has been classified High_Speed
C2_InterstateClassified ==
    /\ Classified /\ street = Str(<<"I","-","9">>)
    /\ RE_STATE_CODE_ROUTE(Seen) /\ speed = "High_Speed"

Rules1to4(s) ==
    \/ RE_INTERSTATE(s)
    \/ ContainsAny(s, KW_High_Speed)
    \/ ContainsAny(s, KW_Structure)
    \/ RE_US_ROUTE(s) \/ RE_STATE_ROUTE_GENERIC(s)

Rules6to8(s) ==
    IF ContainsAny(s, KW_Medium_Speed) THEN "Medium_Speed"
    ELSE IF ContainsAny(s, KW_Low_Speed) THEN "Low_Speed"
    ELSE "Other/Unknown"

\* a compass letter, an optional space, digits, an ordinal suffix
DirectionalOrdinal(s) ==
    \E p \in 1..Len(s), q \in 1..Len(s), e \in 1..Len(s) :
        /\ StartsWord(s, p) /\ s[p] \in {"n", "e", "s", "w"}
        /\ q = p + 1 \/ (q = p + 2 /\ s[p + 1] = " ")
        /\ AllDigits(s, q, e)
        /\ e + 2 <= Len(s)
        /\ <<s[e + 1], s[e + 2]>> \in {<<"s","t">>, <<"n","d">>, <<"r","d">>, <<"t","h">>}
        /\ EndsWord(s, e + 2)

\* C3: a street name that matches the directional-ordinal pattern and that
\* rules 1-4 do not match is never made Medium_Speed by the state-coded
\* route pattern: its class is the one rules 6-8 give (Medium keywords,
\* then Low keywords, then Other/Unknown); "W 11th St" is Low_Speed.
C3_DirectionGuard ==
    /\ (Classified /\ NonBlank /\ DirectionalOrdinal(Seen) /\ ~ Rules1to4(Seen))
           => speed = Rules6to8(Seen)
    /\ (Classified /\ street = Str(<<"W"," ","1","1","t","h"," ","S","t">>)) => speed = "Low_Speed"

\* C3, witness: a name with a state-coded route and a directional ordinal
\* in it has been classified by the Low keywords
C3_GuardTaken ==
    /\ Classified /\ NonBlank
    /\ RE_STATE_CODE_ROUTE(Seen) /\ DirectionalOrdinal(Seen) /\ ~ Rules1to4(Seen)
    /\ speed = "Low_Speed"

(***************************************************************************)
(* Claims about the weather grouper (SpecWeather).                         *)
(***************************************************************************)
GroupKeywords ==
    << {<<"r","a","i","n">>, <<"d","r","i","z","z","l","e">>}, {<<"s","n","o","w">>, <<"s","l","e","e","t">>}, {<<"f","o","g">>, <<"m","i","s","t">>},
       {<<"s","t","o","r","m">>, <<"t","h","u","n","d","e","r">>}, {<<"c","l","e","a","r">>}, {<<"c","l","o","u","d">>} >>
GroupLabels == <<"Rain", "Snow", "Fog", "Storm", "Clear", "Cloudy">>
Present(i) == \E k \in GroupKeywords[i] : Contains(lower(cond.v), k)

\* C4: a missing condition is Unknown; otherwise the group is the first,
\* in the order Rain, Snow, Fog, Storm, Clear, Cloudy, with a keyword in
\* the lower-cased text, and Other when there is none; the result is one
\* of the eight labels; "Light Rain" is Rain, "Partly Cloudy" is Cloudy,
\* "Blizzard" is Other.
C4_WeatherCascade ==
    wgroup # NoResult =>
        /\ wgroup \in {GroupLabels[i] : i \in 1..6} \cup {"Unknown", "Other"}
        /\ isna(cond) => wgroup = "Unknown"
        /\ ~ isna(cond) =>
              /\ \A i \in 1..6 :
                    wgroup = GroupLabels[i]
                        <=> (Present(i) /\ \A j \in 1..(i - 1) : ~ Present(j))
              /\ wgroup = "Other" <=> \A i \in 1..6 : ~ Present(i)
        /\ cond = Str(<<"L","i","g","h","t"," ","R","a","i","n">>) => wgroup = "Rain"
        /\ cond = Str(<<"P","a","r","t","l","y"," ","C","l","o","u","d","y">>) => wgroup = "Cloudy"
        /\ cond = Str(<<"B","l","i","z","z","a","r","d">>) => wgroup = "Other"

\* C4, witness: a text with thunder and rain in it has been grouped Rain
C4_EarliestGroupWins ==
    /\ wgroup = "Rain" /\ ~ isna(cond)
    /\ Contains(lower(cond.v), <<"t","h","u","n","d","e","r">>) /\ Contains(lower(cond.v), <<"r","a","i","n">>)


(***************************************************************************)
(* Claims about preprocess() (Spec).  At "done" the frame df is the one    *)
(* written: out[i] is the row of index label df[i].idx.                    *)
(***************************************************************************)
Exported == pc = "done"
\* the raw row an exported row comes from
RawOf(i) == raw.rows[df[i].idx + 1]

\* C5, as stated: no exported row has a missing value in any exported
\* column.
C5_NoMissingField ==
    Exported => \A i \in 1..Len(out) : \A c \in DOMAIN out[i] : ~ isna(out[i][c])

\* C5, amended: no exported row has a missing value in Severity2,
\* CityState, Hour_Sin, Hour_Cos, Is_Weekend, Speed_Class or
\* Precipitation(in); Visibility(mi), Temperature(F) and Traffic_Signal are
\* exported as read, so a row in which one of them is missing is exported
\* with it missing, not dropped.
C5_NoMissingDerivedField ==
    Exported => \A i \in 1..Len(out) :
        /\ \A c \in {"Severity2", "CityState", "Hour_Sin", "Hour_Cos",
                     "Is_Weekend", "Speed_Class", "Precipitation(in)"} :
              c \in DOMAIN out[i] /\ ~ isna(out[i][c])
        /\ \A c \in {"Visibility(mi)", "Temperature(F)", "Traffic_Signal"} \cap raw.columns :
              c \in DOMAIN out[i] /\ out[i][c] = RawOf(i).val[c]

\* C5, witness: a row has been exported with its visibility missing, and
\* one whose missing precipitation was filled
C5_MissingVisibilityExported ==
    /\ Exported
    /\ \E i \in 1..Len(out) : isna(out[i]["Visibility(mi)"])
    /\ \E i \in 1..Len(out) :
          isna(RawOf(i).val["Precipitation(in)"]) /\ out[i]["Precipitation(in)"] = Num(0)

\* C6: no exported row carries Severity2 = Low or High for a raw severity
\* outside {1, 2, 3, 4}, a missing one included (the run fails, or the row
\* is labelled Unknown).
C6_OutOfRangeSeverityNotLabelled ==
    Exported => \A i \in 1..Len(out) :
        ~ (RawOf(i).val["Severity"].k = "num" /\ RawOf(i).val["Severity"].v \in 1..4)
            => out[i]["Severity2"] \notin {Label("Low"), Label("High")}

\* the plausibility bounds, inclusive
StatedBounds ==
    { <<"Temperature(F)", -40, 120>>, <<"Visibility(mi)", 0, 10>>,
      <<"Precipitation(in)", 0, 25>> }
RawKey(r) == [c \in raw.columns \ {"ID"} |-> r.val[c]]
\* r is no duplicate: no earlier raw row equals it on every column but ID
NoDuplicate(r) == \A q \in Rows(raw.rows) : RawKey(q) = RawKey(r) => r.idx <= q.idx
OutOfBounds(r) ==
    \E b \in StatedBounds :
        /\ b[1] \in raw.columns
        /\ r.val[b[1]].k = "num"
        /\ r.val[b[1]].v < b[2] \/ r.val[b[1]].v > b[3]
RawN == Len(raw.rows)
RawK == RawN - Cardinality({RawKey(r) : r \in Rows(raw.rows)})
RawM == Cardinality({r \in Rows(raw.rows) : NoDuplicate(r) /\ OutOfBounds(r)})

\* C8: of N raw rows with K exact duplicates (equal on every column but
\* ID) and M rows, none of them a duplicate, with a present Temperature,
\* Visibility or Precipitation outside its bounds, at most N - K - M are
\* exported, each with Severity2, CityState, Hour_Sin and Hour_Cos present.
C8_EndToEnd ==
    Exported =>
        /\ Len(out) <= RawN - RawK - RawM
        /\ \A i \in 1..Len(out) :
              \A c \in {"Severity2", "CityState", "Hour_Sin", "Hour_Cos"} :
                  c \in DOMAIN out[i] /\ ~ isna(out[i][c])

\* C8, witness: a run over three rows, one a duplicate and one out of
\* bounds, that exported the third
C8_DuplicateAndImplausibleDropped ==
    Exported /\ RawN = 3 /\ RawK = 1 /\ RawM = 1 /\ Len(out) = 1

\* C9: the file is written last, after every section; with a required
\* column absent the run fails and nothing is written; with the required
\* columns there, no value of a row, absent or unparseable, fails the run.
C9_OnlySchemaErrorsAbort ==
    /\ written => pc = "done"
    /\ ~ (RequiredColumns \subseteq raw.columns) => (~ written /\ pc # "done")
    /\ RequiredColumns \subseteq raw.columns => pc # "failed"

StampYear(r) == to_datetime(r.val["Start_Time"]).v.year
StatedWindow(y) == IF post THEN 2019 <= y /\ y <= 2023 ELSE 2016 <= y /\ y <= 2018
Survives(r) == ~ isna(to_datetime(r.val["Start_Time"])) /\ StatedWindow(StampYear(r))
Indexes(rows) == {r.idx : r \in Rows(rows)}

\* C10: a record survives the temporal stage if and only if its start
\* timestamp parses and its year lies in the window, 2016..2018 by default
\* and 2019..2023 with post, both ends included; a record with an
\* unparseable timestamp is dropped.
C10_TemporalFilter ==
    [][ (pc = "Time Processing" /\ pc' = "Data Cleaning")
            => Indexes(df') = {r.idx : r \in {x \in Rows(df) : Survives(x)}} ]_vars

\* C10, witness: with the default window, the stage has kept a record of
\* 2018 and dropped one of 2015 and one whose timestamp does not parse
C10_WindowApplied ==
    /\ pc = "Data Cleaning" /\ ~ post
    /\ \E a, b, c \in Rows(raw.rows) :
          /\ ~ isna(to_datetime(a.val["Start_Time"])) /\ StampYear(a) = 2018
          /\ a.idx \in Indexes(df)
          /\ ~ isna(to_datetime(b.val["Start_Time"])) /\ StampYear(b) = 2015
          /\ b.idx \notin Indexes(df)
          /\ isna(to_datetime(c.val["Start_Time"]))
          /\ c.idx \notin Indexes(df)


=============================================================================
